---- MODULE Spec2Model ----
(***************************************************************************)
(* Model of agent_api/server.py: create_app / _add_route (startup) and the *)
(* per-route request handler (_build_call_kwargs, _invoke_callable, the    *)
(* scalar response shaper and the server-sent-event stream iterator).      *)
(*                                                                         *)
(* Python values are encoded with one record shape per kind of value so    *)
(* that any two of them can be compared:                                   *)
(*   dict  : a function from key strings to value strings                  *)
(*   value : [kind, data, text, items]  (data: the dict of a dict/model,    *)
(*           text: the content of a str/bytes/int, items: those of a list) *)
(*   None  : the string Null where a str | None field is modelled          *)
(***************************************************************************)
EXTENDS Naturals, Sequences, FiniteSets, TLC

VARIABLES config, app, served, req, history, reqs

vars == <<config, app, served, req, history, reqs>>

(***************************************************************************)
(* Bounds of the model.                                                    *)
(***************************************************************************)
MaxRoutes == 2      \* longest configured route list (startup specification)
MaxChunks == 2      \* most chunks a source sequence yields in one stream
MaxRequests == 2    \* requests in flight at once (concurrency specification)

(***************************************************************************)
(* Value domains.                                                          *)
(***************************************************************************)
Null == "<None>"

EmptyDict == [k \in {} |-> ""]

Dicts(K, V) == UNION {[S -> V] : S \in SUBSET K}

Params == {"input", "mode"}          \* agent method parameter names
Fields == {"input", "text"}          \* request payload field names
PayloadValues == {"u", "v"}
ConstValues == {"c"}

Value(kind, data, text) ==
    [kind |-> kind, data |-> data, text |-> text, items |-> <<>>]

ListValue(items) == [Value("list", EmptyDict, "") EXCEPT !.items = items]

\* No value yet (an unset local); Python's None is Value("none", ...).
NoValue == Value("unset", EmptyDict, "")

\* Truthiness of a str | None field: None and "" are both falsy.
Truthy(s) == s # Null /\ s # ""

(***************************************************************************)
(* config.py: RouteConfig.  Only the fields server.py reads are kept;      *)
(* parameter_mapping is the dict in insertion order, a sequence of         *)
(* <<agent parameter, payload field>> pairs with distinct parameters.      *)
(***************************************************************************)
IsMapping(m) == \A i, j \in DOMAIN m : i # j => m[i][1] # m[j][1]

Mappings ==
    {m \in UNION {[1..n -> Params \X Fields] : n \in 0..Cardinality(Params)} :
        IsMapping(m)}

RouteConfig(path, method, agent_method, response_model, parameter_mapping, constant_parameters, stream, response_envelope) ==
    [path |-> path, method |-> method, agent_method |-> agent_method,
     response_model |-> response_model,
     parameter_mapping |-> parameter_mapping,
     constant_parameters |-> constant_parameters,
     stream |-> stream, response_envelope |-> response_envelope]

\* examples/agents.py: EchoAgent has two methods and one data attribute.
Agent == [invoke |-> "method", stream |-> "method", prefix |-> "str"]

\* getattr(agent, name, None)
getattr(agent, name) == IF name \in DOMAIN agent THEN agent[name] ELSE Null

\* importing.py load_object on the schema references of the model: only
\* agent_api.schemas.InvokeResponse names an importable BaseModel.
InvokeResponseRef == "agent_api.schemas.InvokeResponse"

load_response_model(route) ==
    IF ~Truthy(route.response_model) THEN [ok |-> TRUE, cls |-> Null]
    ELSE IF route.response_model = InvokeResponseRef
         THEN [ok |-> TRUE, cls |-> "InvokeResponse"]
         ELSE [ok |-> FALSE, cls |-> Null]

(***************************************************************************)
(* server.py: _add_route and create_app.  An app is its ordered route      *)
(* table; each entry is the fixed health handler or the handler closure of *)
(* one configured route (route, agent_callable, response_model).           *)
(***************************************************************************)
NoRoute == RouteConfig("", "", "", Null, <<>>, EmptyDict, FALSE, Null)

HealthEntry ==
    [method |-> "GET", path |-> "/health", handler |-> "health",
     route |-> NoRoute, agent_callable |-> Null, response_model |-> Null]

NoApp == [status |-> "unbuilt", routes |-> <<>>, error |-> ""]

_add_route(a, route, agent) ==
    LET response_model == load_response_model(route)
        agent_callable == getattr(agent, route.agent_method)
    IN  IF a.status # "building" THEN a
        ELSE IF ~response_model.ok
        THEN [status |-> "failed", routes |-> <<>>, error |-> "ImportError"]
        ELSE IF agent_callable = Null
        THEN [status |-> "failed", routes |-> <<>>, error |-> "AttributeError"]
        ELSE [a EXCEPT !.routes = Append(@,
                [method |-> route.method, path |-> route.path,
                 handler |-> "agent", route |-> route,
                 agent_callable |-> agent_callable,
                 response_model |-> response_model.cls])]

RECURSIVE AddRoutes(_, _, _)
AddRoutes(a, routes, agent) ==
    IF routes = <<>> THEN a
    ELSE AddRoutes(_add_route(a, Head(routes), agent), Tail(routes), agent)

Finish(a) == IF a.status = "building" THEN [a EXCEPT !.status = "serving"] ELSE a

\* A create_app that installs the liveness endpoint after the configured
\* routes instead of before them.
create_app_health_last(cfg, agent) ==
    LET a == AddRoutes([status |-> "building", routes |-> <<>>, error |-> ""],
                       cfg, agent)
    IN  Finish(IF a.status = "building"
               THEN [a EXCEPT !.routes = Append(@, HealthEntry)] ELSE a)

create_app(cfg, agent) ==
    Finish(AddRoutes([status |-> "building", routes |-> <<HealthEntry>>,
                      error |-> ""], cfg, agent))

\* The hosting router: the first registered route whose method and path
\* both match handles the request; 0 when none does.
Resolve(a, method, path) ==
    LET hits == {i \in DOMAIN a.routes :
                    a.routes[i].method = method /\ a.routes[i].path = path}
    IN  IF hits = {} THEN 0 ELSE CHOOSE i \in hits : \A j \in hits : i <= j

\* server.py: health()
health == ("status" :> "ok")

(***************************************************************************)
(* server.py: _build_call_kwargs.  The result is the returned kwargs, or   *)
(* the HTTPException raised (status and the missing fields its detail      *)
(* joins with ", ").                                                       *)
(***************************************************************************)
Payload(kind, data) == [kind |-> kind, data |-> data]

\* lines 36-43: None -> {}, model -> model_dump(), dict -> itself
PayloadData(payload) == IF payload.kind = "none" THEN EmptyDict ELSE payload.data

Mapped(kwargs) == [ok |-> TRUE, kwargs |-> kwargs, status |-> 0, missing |-> <<>>]

Rejected(status, missing) ==
    [ok |-> FALSE, kwargs |-> EmptyDict, status |-> status, missing |-> missing]

\* lines 48-52: the loop over parameter_mapping.items()
RECURSIVE MappingLoop(_, _, _, _)
MappingLoop(mapping, data, kwargs, missing) ==
    IF mapping = <<>> THEN [kwargs |-> kwargs, missing |-> missing]
    ELSE LET param == Head(mapping)[1]
             field == Head(mapping)[2]
         IN  IF field \notin DOMAIN data
             THEN MappingLoop(Tail(mapping), data, kwargs, Append(missing, field))
             ELSE MappingLoop(Tail(mapping), data,
                              (param :> data[field]) @@ kwargs, missing)

\* Constants written after the mapped values, so a constant wins a collision.
build_constants_win(route, payload) ==
    LET l == MappingLoop(route.parameter_mapping, PayloadData(payload),
                         EmptyDict, <<>>)
    IN  IF payload.kind = "other" THEN Rejected(400, <<>>)
        ELSE IF route.parameter_mapping # <<>>
        THEN IF l.missing # <<>> THEN Rejected(422, l.missing)
             ELSE Mapped(route.constant_parameters @@ l.kwargs)
        ELSE Mapped(PayloadData(payload) @@ route.constant_parameters)

\* The loop raises at the first missing field instead of collecting them.
build_first_missing_only(route, payload) ==
    LET l == MappingLoop(route.parameter_mapping, PayloadData(payload),
                         route.constant_parameters, <<>>)
    IN  IF payload.kind = "other" THEN Rejected(400, <<>>)
        ELSE IF route.parameter_mapping # <<>>
        THEN IF l.missing # <<>> THEN Rejected(422, <<Head(l.missing)>>)
             ELSE Mapped(l.kwargs)
        ELSE Mapped(PayloadData(payload) @@ route.constant_parameters)

\* Pass-through that starts from an empty dict instead of the constants.
build_passthrough_drops_constants(route, payload) ==
    LET l == MappingLoop(route.parameter_mapping, PayloadData(payload),
                         route.constant_parameters, <<>>)
    IN  IF payload.kind = "other" THEN Rejected(400, <<>>)
        ELSE IF route.parameter_mapping # <<>>
        THEN IF l.missing # <<>> THEN Rejected(422, l.missing)
             ELSE Mapped(l.kwargs)
        ELSE Mapped(PayloadData(payload))

_build_call_kwargs(route, payload) ==
    LET l == MappingLoop(route.parameter_mapping, PayloadData(payload),
                         route.constant_parameters, <<>>)
    IN  IF payload.kind = "other" THEN Rejected(400, <<>>)
        ELSE IF route.parameter_mapping # <<>>
        THEN IF l.missing # <<>> THEN Rejected(422, l.missing)
             ELSE Mapped(l.kwargs)
        ELSE Mapped(PayloadData(payload) @@ route.constant_parameters)

\* A handler whose kwargs is route.constant_parameters itself, not a copy:
\* what is written to kwargs is written to the route.
kwargs_alias_constants(route, kwargs) == kwargs

\* line 45: kwargs = dict(route.constant_parameters) is a new dict, so what
\* route.constant_parameters holds after kwargs was written (lines 51 and
\* 59, or by whoever holds the call arguments later) is what it held before
constant_parameters_after(route, kwargs) == route.constant_parameters

(***************************************************************************)
(* server.py: _invoke_callable.  `call` is what calling callable_obj with   *)
(* the kwargs does: raise, return an awaitable, or return a value.  The    *)
(* result is what the handler sees of line 98 up to the first suspension,  *)
(* with the number of times the callable was called.                       *)
(***************************************************************************)
AgentExceptions == {"ValueError", "TimeoutError"}

Raise(exc) == [kind |-> "raise", exc |-> exc, value |-> NoValue]
Awaitable == [kind |-> "awaitable", exc |-> "", value |-> NoValue]
Return(v) == [kind |-> "return", exc |-> "", value |-> v]

Invoked(step, calls) ==
    [kind |-> step.kind, exc |-> step.exc, value |-> step.value, calls |-> calls]

\* An _invoke_callable that catches what the callable raises and reports a
\* generic error in its place.
invoke_translates_exception(agent_callable, call) ==
    IF agent_callable # "method" THEN Invoked(Raise("TypeError"), 1)
    ELSE IF call.kind = "raise" THEN Invoked(Raise("HTTPException"), 1)
    ELSE Invoked(call, 1)

\* line 18; calling an attribute that is no callable raises TypeError
_invoke_callable(agent_callable, call) ==
    IF agent_callable # "method" THEN Invoked(Raise("TypeError"), 1)
    ELSE Invoked(call, 1)

\* line 20: `return await result` gives the value or raises what it raised
await_result(resolved) == resolved

(***************************************************************************)
(* server.py: _serialise_stream_item and the stream branch of the handler. *)
(* A frame is the text "data: <json>\n\n"; it is modelled by the JSON      *)
(* object it carries.  json.dumps raises TypeError on bytes.               *)
(***************************************************************************)
Frame(payload) == [sse |-> payload]

Sentinel == Frame("event" :> "end")          \* line 117

Serialised(frame) == [ok |-> TRUE, frame |-> frame]
NotSerialisable == [ok |-> FALSE, frame |-> Frame(EmptyDict)]

_serialise_stream_item(item) ==
    IF item.kind = "model" THEN Serialised(Frame(item.data))
    ELSE IF item.kind = "dict" THEN Serialised(Frame(item.data))
    ELSE IF item.kind \in {"str", "int"}
         THEN Serialised(Frame("data" :> item.text))
         ELSE NotSerialisable

\* The iterable the stream is read from: a list with the items it still
\* holds, or a sync ("gen") or async ("agen") generator, whose items are
\* only known as they are pulled.
Source(kind, items) == [kind |-> kind, items |-> items]

NoSource == Source("none", <<>>)

Shaped(source) == [ok |-> TRUE, source |-> source]
Unsupported == [ok |-> FALSE, source |-> NoSource]

\* A shape check that wraps any non-iterable result in a one-item list.
stream_source_wraps_anything(result) ==
    IF result.kind \in {"list", "gen", "agen"}
    THEN Shaped(Source(result.kind, result.items))
    ELSE Shaped(Source("list", <<result>>))

\* lines 101-108
stream_source(result) ==
    IF result.kind \in {"str", "bytes"}
    THEN Shaped(Source("list", <<result>>))
    ELSE IF result.kind \in {"list", "gen", "agen"}
    THEN Shaped(Source(result.kind, result.items))
    ELSE Unsupported

\* One resumption of iterator(): `pull` is what the source does when asked
\* for its next item (an item, exhaustion, or an exception).
Item(v) == [kind |-> "item", item |-> v, exc |-> ""]
Exhausted == [kind |-> "stop", item |-> NoValue, exc |-> ""]
Fails(exc) == [kind |-> "raise", item |-> NoValue, exc |-> exc]

Emit(frames, pc, exc) == [frames |-> frames, pc |-> pc, exc |-> exc]

\* An iterator that yields the sentinel in a `finally`, also when the source
\* raised.
iterator_sentinel_in_finally(yielded, pull) ==
    IF pull.kind = "item"
    THEN IF _serialise_stream_item(pull.item).ok
         THEN Emit(<<_serialise_stream_item(pull.item).frame>>, "streaming", "")
         ELSE Emit(<<>>, "done", "TypeError")
    ELSE IF pull.kind = "raise" THEN Emit(<<Sentinel>>, "done", pull.exc)
    ELSE Emit(<<Sentinel>>, "sentinel", "")

\* An iterator that drains the source first: it keeps every chunk it pulls
\* and hands all the frames over once the source is exhausted.
iterator_buffers_source(yielded, pull) ==
    IF pull.kind = "item"
    THEN IF _serialise_stream_item(pull.item).ok
         THEN Emit(<<>>, "streaming", "")
         ELSE Emit(<<>>, "done", "TypeError")
    ELSE IF pull.kind = "raise" THEN Emit(<<>>, "done", pull.exc)
    ELSE Emit([i \in 1..Len(yielded) |-> _serialise_stream_item(yielded[i]).frame]
                \o <<Sentinel>>, "sentinel", "")

\* lines 110-117
iterator(yielded, pull) ==
    IF pull.kind = "item"
    THEN IF _serialise_stream_item(pull.item).ok
         THEN Emit(<<_serialise_stream_item(pull.item).frame>>, "streaming", "")
         ELSE Emit(<<>>, "done", "TypeError")
    ELSE IF pull.kind = "raise" THEN Emit(<<>>, "done", pull.exc)
    ELSE Emit(<<Sentinel>>, "sentinel", "")

(***************************************************************************)
(* server.py: _apply_response_model and _wrap_non_model_response.  A JSON  *)
(* body is a content value under zero or more envelope keys, outermost     *)
(* first: {"result": {"output": "x"}} is Body(<<"result">>, {output: x}).  *)
(***************************************************************************)
Body(envelopes, content) == [envelopes |-> envelopes, content |-> content]

NoBody == Body(<<>>, NoValue)

Built(body) == [ok |-> TRUE, body |-> body, exc |-> ""]
Failed(exc) == [ok |-> FALSE, body |-> NoBody, exc |-> exc]

\* schemas.py: InvokeResponse (output: Any, metadata: Dict | None = None)
SchemaFields == {"output", "metadata"}
RequiredFields == {"output"}

\* model_cls.model_validate(result_data).model_dump(): the declared fields
\* only, defaults filled in; ValidationError without the required ones.
model_validate_dump(result_data) ==
    IF result_data.kind = "dict" /\ RequiredFields \subseteq DOMAIN result_data.data
    THEN Built(Body(<<>>, Value("dict",
            [k \in SchemaFields |->
                IF k \in DOMAIN result_data.data THEN result_data.data[k]
                ELSE "null"], "")))
    ELSE Failed("ValidationError")

_wrap_non_model_response(route, result) ==
    IF Truthy(route.response_envelope)
    THEN Built(Body(<<route.response_envelope>>, result))
    ELSE Built(Body(<<>>, result))

\* A shaper that forgets the envelope when an output schema is declared.
apply_response_model_no_envelope(route, model_cls, result) ==
    LET result_data == IF result.kind = "model"
                       THEN Value("dict", result.data, "") ELSE result
    IN  IF model_cls = Null THEN _wrap_non_model_response(route, result)
        ELSE model_validate_dump(result_data)

_apply_response_model(route, model_cls, result) ==
    LET result_data == IF result.kind = "model"
                       THEN Value("dict", result.data, "") ELSE result
        model == model_validate_dump(result_data)
    IN  IF model_cls = Null THEN _wrap_non_model_response(route, result)
        ELSE IF ~model.ok THEN model
        ELSE IF Truthy(route.response_envelope)
        THEN Built(Body(<<route.response_envelope>>, model.body.content))
        ELSE Built(Body(<<>>, model.body.content))

\* JSONResponse(payload_out) renders with json.dumps at construction.
JSONResponse(body) ==
    IF body.content.kind \in {"dict", "str", "int", "none"}
    THEN Built(body) ELSE Failed("TypeError")

(***************************************************************************)
(* The response of one request as the client and the HTTP layer see it.    *)
(***************************************************************************)
Out(kind, status, body, detail, exc) ==
    [kind |-> kind, status |-> status, body |-> body, detail |-> detail,
     exc |-> exc]

NoOut == Out("none", 0, NoBody, <<>>, "")
HttpError(status, detail) == Out("http_error", status, NoBody, detail, "")
Raised(exc) == Out("raised", 0, NoBody, <<>>, exc)
JsonOut(body) == Out("json", 200, body, <<>>, "")
StreamOut == Out("stream", 200, NoBody, <<>>, "")

(***************************************************************************)
(* Inputs: configurations, request payloads, what the agent method does.   *)
(***************************************************************************)
Methods == {"GET", "POST"}
Paths == {"/health", "/invoke"}

\* Routes of the startup specification: every method, path, agent attribute
\* (a method, a data attribute, a missing one) and schema reference.
StartupRoutes ==
    {RouteConfig(p, m, am, rm, <<>>, EmptyDict, FALSE, Null) :
        p \in Paths, m \in Methods, am \in {"invoke", "prefix", "missing"},
        rm \in {Null, "missing.Model"}}

RouteLists == UNION {[1..n -> StartupRoutes] : n \in 0..MaxRoutes}

\* Routes of the request specification, all POST /invoke: every mapping and
\* constants on a plain non-stream route; every stream flag, envelope and
\* output schema with an empty and a one-pair mapping; and one route per
\* stream flag bound to the agent's data attribute.
HandlerRoutes ==
    {RouteConfig("/invoke", "POST", "invoke", Null, pm, cp, FALSE, Null) :
        pm \in Mappings, cp \in Dicts(Params, ConstValues)}
    \cup {RouteConfig("/invoke", "POST", "invoke", rm, pm, EmptyDict, st, env) :
            rm \in {Null, InvokeResponseRef},
            pm \in {<<>>, <<<<"input", "input">>>>},
            st \in BOOLEAN, env \in {Null, "", "result"}}
    \cup {RouteConfig("/invoke", "POST", "prefix", Null, <<>>, EmptyDict, st, Null) :
            st \in BOOLEAN}

Payloads ==
    {Payload("none", EmptyDict)}
    \cup {Payload(k, d) : k \in {"dict", "model"}, d \in Dicts(Fields, PayloadValues)}

\* What a method of a non-stream route returns, and what a stream route's.
ScalarResults ==
    {Value("dict", d, "") : d \in Dicts({"output", "extra"}, {"x"})}
    \cup {Value("model", ("output" :> "x") @@ ("metadata" :> "null"), ""),
          Value("str", EmptyDict, "a")}

\* The chunks a source sequence yields.
Chunks ==
    {Value("str", EmptyDict, "a"), Value("dict", ("event" :> "token"), ""),
     Value("model", ("event" :> "final"), ""), Value("bytes", EmptyDict, "raw")}

ChunkLists == UNION {[1..n -> Chunks] : n \in 0..MaxChunks}

StreamResults ==
    {Value("str", EmptyDict, "a"), Value("bytes", EmptyDict, "raw"),
     Value("int", EmptyDict, "7"), Value("none", EmptyDict, ""),
     Value("gen", EmptyDict, ""), Value("agen", EmptyDict, "")}
    \cup {ListValue(items) : items \in ChunkLists}

Results(route) == IF route.stream THEN StreamResults ELSE ScalarResults

(***************************************************************************)
(* State.                                                                  *)
(*   config   the configured route list                                    *)
(*   app      the FastAPI app create_app returned (or its failure)         *)
(*   served   the last request routed in the startup specification         *)
(*   req      the request in flight: the handler's position and locals,    *)
(*            the source's history (yielded, src_end), the frames handed   *)
(*            to the transport, whether the client disconnected, and the   *)
(*            response                                                     *)
(*   history  what earlier requests on the route ended with                *)
(*   reqs     the requests in flight in the concurrency specification, one *)
(*            record of the handler's locals per request                   *)
(***************************************************************************)
NoServed == [method |-> "", path |-> "", index |-> 0, handler |-> "", body |-> EmptyDict]

IdleReq ==
    [pc |-> "idle", handler |-> 0, payload |-> Payload("none", EmptyDict),
     kwargs |-> EmptyDict, calls |-> 0, awaited |-> FALSE, agent_exc |-> "",
     result |-> NoValue,
     source |-> NoSource, yielded |-> <<>>, src_end |-> "open",
     frames |-> <<>>, disconnected |-> FALSE, out |-> NoOut]

NoHistory == [unsupported_shape |-> FALSE]

Requests == 1..MaxRequests

NoRequests == [r \in Requests |-> IdleReq]

Entry == app.routes[req.handler]

\* What calling the agent method can do, and what awaiting its result can.
Resolutions ==
    IF req.handler = 0 THEN {}
    ELSE {Raise(e) : e \in AgentExceptions}
         \cup {Return(v) : v \in Results(Entry.route)}

Calls == IF req.handler = 0 THEN {} ELSE Resolutions \cup {Awaitable}

\* ---- startup specification: create_app, then routing ----

InitApp ==
    /\ config \in RouteLists
    /\ app = NoApp
    /\ served = NoServed
    /\ req = IdleReq
    /\ history = NoHistory
    /\ reqs = NoRequests

\* create_app(config, agent): returns the app or raises
Startup ==
    /\ app.status = "unbuilt"
    /\ app' = create_app(config, Agent)
    /\ UNCHANGED <<config, served, req, history, reqs>>

\* One request routed by the app: the health handler answers, or a
\* configured route's handler is entered, or nothing matches.
Serve(method, path) ==
    /\ app.status = "serving"
    /\ LET i == Resolve(app, method, path)
           h == IF i = 0 THEN "not_found" ELSE app.routes[i].handler
       IN  served' = [method |-> method, path |-> path, index |-> i,
                      handler |-> h,
                      body |-> IF h = "health" THEN health ELSE EmptyDict]
    /\ UNCHANGED <<config, app, req, history, reqs>>

NextApp ==
    \/ Startup
    \/ \E m \in Methods, p \in Paths : Serve(m, p)

SpecApp == InitApp /\ [][NextApp]_vars

\* ---- request specification: the handler of one configured route ----

Init ==
    /\ config \in {<<r>> : r \in HandlerRoutes}
    /\ app = create_app(config, Agent)
    /\ app.status = "serving"
    /\ served = NoServed
    /\ req = IdleReq
    /\ history = NoHistory
    /\ reqs = NoRequests

\* line 97: the request is routed to the handler, which builds the kwargs
ReceiveRequest(i, payload) ==
    /\ req.pc = "idle"
    /\ app.routes[i].handler = "agent"
    /\ Resolve(app, app.routes[i].method, app.routes[i].path) = i
    /\ LET built == _build_call_kwargs(app.routes[i].route, payload)
       IN  req' = IF built.ok
                  THEN [IdleReq EXCEPT !.pc = "mapped", !.handler = i,
                                       !.payload = payload,
                                       !.kwargs = built.kwargs]
                  ELSE [IdleReq EXCEPT !.pc = "done", !.handler = i,
                                       !.payload = payload,
                                       !.out = HttpError(built.status, built.missing)]
    /\ UNCHANGED <<config, app, served, history, reqs>>

\* line 98 up to the first suspension: the callable is called
InvokeAgent(call) ==
    /\ req.pc = "mapped"
    /\ LET inv == _invoke_callable(Entry.agent_callable, call)
           agent_raised == Entry.agent_callable = "method" /\ call.kind = "raise"
       IN  req' = [req EXCEPT
                !.payload = IdleReq.payload,
                !.kwargs = EmptyDict,
                !.calls = @ + inv.calls,
                !.agent_exc = IF agent_raised THEN call.exc ELSE @,
                !.awaited = inv.kind = "awaitable",
                !.pc = CASE inv.kind = "raise" -> "done"
                         [] inv.kind = "awaitable" -> "awaiting"
                         [] OTHER -> "returned",
                !.result = inv.value,
                !.out = IF inv.kind = "raise" THEN Raised(inv.exc) ELSE @]
    /\ UNCHANGED <<config, app, served, history, reqs>>

\* line 20: the awaited result resolves, to a value or to an exception
ResumeAwait(resolved) ==
    /\ req.pc = "awaiting"
    /\ LET r == await_result(resolved)
       IN  req' = [req EXCEPT
                !.agent_exc = IF resolved.kind = "raise" THEN resolved.exc ELSE @,
                !.pc = IF r.kind = "raise" THEN "done" ELSE "returned",
                !.result = r.value,
                !.out = IF r.kind = "raise" THEN Raised(r.exc) ELSE @]
    /\ UNCHANGED <<config, app, served, history, reqs>>

\* lines 100-119: a stream route classifies the result and returns the
\* StreamingResponse, or raises the 500
RespondStream ==
    /\ req.pc = "returned"
    /\ Entry.route.stream
    /\ LET s == stream_source(req.result)
       IN  req' = IF s.ok
                  THEN [req EXCEPT !.pc = "streaming", !.source = s.source,
                                   !.out = StreamOut]
                  ELSE [req EXCEPT !.pc = "done", !.out = HttpError(500, <<>>)]
    /\ UNCHANGED <<config, app, served, history, reqs>>

\* lines 121-122: a non-stream route shapes the result into the JSON body
RespondJson ==
    /\ req.pc = "returned"
    /\ ~Entry.route.stream
    /\ LET shaped == _apply_response_model(Entry.route, Entry.response_model,
                                           req.result)
           rendered == IF shaped.ok THEN JSONResponse(shaped.body) ELSE shaped
       IN  req' = [req EXCEPT !.pc = "done",
                              !.out = IF rendered.ok THEN JsonOut(rendered.body)
                                      ELSE Raised(rendered.exc)]
    /\ UNCHANGED <<config, app, served, history, reqs>>

\* What the source can do when the iterator asks for its next item.
Pulls ==
    IF req.source.kind = "list"
    THEN {IF req.source.items # <<>> THEN Item(Head(req.source.items))
          ELSE Exhausted}
    ELSE {Item(c) : c \in IF Len(req.yielded) < MaxChunks THEN Chunks ELSE {}}
         \cup {Exhausted}
         \cup {Fails(e) : e \in AgentExceptions}

\* lines 110-117: the transport pulls the next frame from iterator()
StreamNext(pull) ==
    /\ req.pc = "streaming"
    /\ LET e == iterator(req.yielded, pull)
       IN  req' = [req EXCEPT
                !.yielded = IF pull.kind = "item" THEN Append(@, pull.item) ELSE @,
                !.src_end = CASE pull.kind = "stop" -> "exhausted"
                              [] pull.kind = "raise" -> "raised"
                              [] OTHER -> @,
                !.source.items = IF @ # <<>> THEN Tail(@) ELSE @,
                !.frames = @ \o e.frames,
                !.pc = e.pc,
                !.out.exc = e.exc]
    /\ UNCHANGED <<config, app, served, history, reqs>>

\* after the sentinel the generator returns and the response is complete
StreamClose ==
    /\ req.pc = "sentinel"
    /\ req' = [req EXCEPT !.pc = "done"]
    /\ UNCHANGED <<config, app, served, history, reqs>>

\* line 119: the client disconnects while iterator() is suspended at a
\* yield (or before its first resumption); the transport drops the
\* generator and never resumes it
ClientDisconnect ==
    /\ req.pc \in {"streaming", "sentinel"}
    /\ req' = [req EXCEPT !.pc = "done", !.disconnected = TRUE]
    /\ UNCHANGED <<config, app, served, history, reqs>>

\* the request is over; the route serves the next one
NextRequest ==
    /\ req.pc = "done"
    /\ req' = IdleReq
    /\ history' = [unsupported_shape |->
                     \/ history.unsupported_shape
                     \/ (req.out.kind = "http_error" /\ req.out.status = 500)]
    /\ UNCHANGED <<config, app, served, reqs>>

Next ==
    \/ \E i \in DOMAIN app.routes, payload \in Payloads : ReceiveRequest(i, payload)
    \/ \E call \in Calls : InvokeAgent(call)
    \/ \E resolved \in Resolutions : ResumeAwait(resolved)
    \/ RespondStream
    \/ RespondJson
    \/ \E pull \in Pulls : StreamNext(pull)
    \/ StreamClose
    \/ ClientDisconnect
    \/ NextRequest

Spec == Init /\ [][Next]_vars

\* ---- concurrency specification: MaxRequests requests in flight on a ----
\* ---- mapped scalar route and a pass-through stream route           ----

InvokeRoute ==
    RouteConfig("/invoke", "POST", "invoke", Null, <<<<"input", "text">>>>,
                ("mode" :> "c"), FALSE, Null)

StreamRoute ==
    RouteConfig("/stream", "POST", "stream", Null, <<>>, ("mode" :> "c"), TRUE, Null)

ConcPayloads ==
    {Payload("none", EmptyDict), Payload("dict", ("text" :> "u")),
     Payload("dict", ("input" :> "v") @@ ("mode" :> "u"))}

ConcResults(route) ==
    IF route.stream
    THEN {Value("str", EmptyDict, "a"),
          ListValue(<<Value("dict", ("event" :> "token"), ""),
                      Value("dict", ("event" :> "final"), "")>>)}
    ELSE {Value("dict", ("output" :> "x"), "")}

\* The value the agent binds when it changes one of its call arguments.
AgentValue == "w"

InitConc ==
    /\ config = <<InvokeRoute, StreamRoute>>
    /\ app = create_app(config, Agent)
    /\ served = NoServed
    /\ req = IdleReq
    /\ history = NoHistory
    /\ reqs = NoRequests

\* The route table after request-time code wrote `kwargs`, the call
\* arguments built from the route of entry i.
RoutesAfter(i, kwargs) ==
    [app EXCEPT !.routes[i].route.constant_parameters =
                    constant_parameters_after(app.routes[i].route, kwargs)]

\* line 97: request r enters the handler of entry i, which builds kwargs
ConcReceive(r, i, payload) ==
    /\ reqs[r].pc = "idle"
    /\ app.routes[i].handler = "agent"
    /\ LET route == app.routes[i].route
           built == _build_call_kwargs(route, payload)
       IN  /\ reqs' = [reqs EXCEPT ![r] =
                IF built.ok
                THEN [IdleReq EXCEPT !.pc = "mapped", !.handler = i,
                                     !.payload = payload,
                                     !.kwargs = built.kwargs]
                ELSE [IdleReq EXCEPT !.pc = "done", !.handler = i,
                                     !.payload = payload,
                                     !.out = HttpError(built.status, built.missing)]]
           /\ app' = RoutesAfter(i, IF built.ok THEN built.kwargs
                                    ELSE route.constant_parameters)
    /\ UNCHANGED <<config, served, req, history>>

\* line 98 up to the first suspension: request r calls the agent method
ConcInvoke(r, call) ==
    /\ reqs[r].pc = "mapped"
    /\ LET inv == _invoke_callable(app.routes[reqs[r].handler].agent_callable, call)
       IN  reqs' = [reqs EXCEPT ![r] = [@ EXCEPT
                !.calls = @ + inv.calls,
                !.awaited = inv.kind = "awaitable",
                !.pc = IF inv.kind = "awaitable" THEN "awaiting" ELSE "returned",
                !.result = inv.value]]
    /\ UNCHANGED <<config, app, served, req, history>>

\* line 98, while request r is suspended at the await: the agent method
\* rebinds one of the call arguments it was given
ConcRebind(r, k) ==
    /\ reqs[r].pc = "awaiting"
    /\ k \in DOMAIN reqs[r].kwargs
    /\ reqs[r].kwargs[k] # AgentValue
    /\ reqs' = [reqs EXCEPT ![r].kwargs[k] = AgentValue]
    /\ app' = RoutesAfter(reqs[r].handler, reqs'[r].kwargs)
    /\ UNCHANGED <<config, served, req, history>>

\* line 20: the awaited result of request r resolves to a value
ConcResume(r, resolved) ==
    /\ reqs[r].pc = "awaiting"
    /\ reqs' = [reqs EXCEPT ![r] = [@ EXCEPT
                !.pc = "returned",
                !.result = await_result(resolved).value]]
    /\ UNCHANGED <<config, app, served, req, history>>

\* lines 100-122: request r returns its StreamingResponse or JSONResponse;
\* kwargs and payload are dead from here on
ConcRespond(r) ==
    /\ reqs[r].pc = "returned"
    /\ LET entry == app.routes[reqs[r].handler]
           s == stream_source(reqs[r].result)
           shaped == _apply_response_model(entry.route, entry.response_model,
                                           reqs[r].result)
           rendered == IF shaped.ok THEN JSONResponse(shaped.body) ELSE shaped
       IN  reqs' = [reqs EXCEPT ![r] = [@ EXCEPT
                !.payload = IdleReq.payload,
                !.kwargs = EmptyDict,
                !.pc = IF entry.route.stream /\ s.ok THEN "streaming" ELSE "done",
                !.source = IF entry.route.stream /\ s.ok THEN s.source ELSE @,
                !.out = IF entry.route.stream
                        THEN IF s.ok THEN StreamOut ELSE HttpError(500, <<>>)
                        ELSE IF rendered.ok THEN JsonOut(rendered.body)
                             ELSE Raised(rendered.exc)]]
    /\ UNCHANGED <<config, app, served, req, history>>

\* lines 110-117: the transport of request r pulls the next frame from the
\* request's own iterator()
ConcStreamNext(r) ==
    /\ reqs[r].pc = "streaming"
    /\ LET q == reqs[r]
           pull == IF q.source.items # <<>> THEN Item(Head(q.source.items))
                   ELSE Exhausted
           e == iterator(q.yielded, pull)
       IN  reqs' = [reqs EXCEPT ![r] = [@ EXCEPT
                !.yielded = IF pull.kind = "item" THEN Append(@, pull.item) ELSE @,
                !.src_end = IF pull.kind = "stop" THEN "exhausted" ELSE @,
                !.source.items = IF @ # <<>> THEN Tail(@) ELSE @,
                !.frames = @ \o e.frames,
                !.pc = e.pc,
                !.out.exc = e.exc]]
    /\ UNCHANGED <<config, app, served, req, history>>

\* after the sentinel the generator of request r returns
ConcStreamClose(r) ==
    /\ reqs[r].pc = "sentinel"
    /\ reqs' = [reqs EXCEPT ![r].pc = "done"]
    /\ UNCHANGED <<config, app, served, req, history>>

\* request r is over; a new request may take its place
ConcNextRequest(r) ==
    /\ reqs[r].pc = "done"
    /\ reqs' = [reqs EXCEPT ![r] = IdleReq]
    /\ UNCHANGED <<config, app, served, req, history>>

ConcCalls(r) ==
    IF reqs[r].handler = 0 THEN {}
    ELSE {Awaitable}
         \cup {Return(v) : v \in ConcResults(app.routes[reqs[r].handler].route)}

NextConc ==
    \/ \E r \in Requests, i \in DOMAIN app.routes, payload \in ConcPayloads :
            ConcReceive(r, i, payload)
    \/ \E r \in Requests : \E call \in ConcCalls(r) : ConcInvoke(r, call)
    \/ \E r \in Requests, k \in Params \cup Fields : ConcRebind(r, k)
    \/ \E r \in Requests : \E call \in ConcCalls(r) \ {Awaitable} : ConcResume(r, call)
    \/ \E r \in Requests : ConcRespond(r)
    \/ \E r \in Requests : ConcStreamNext(r)
    \/ \E r \in Requests : ConcStreamClose(r)
    \/ \E r \in Requests : ConcNextRequest(r)

SpecConc == InitConc /\ [][NextConc]_vars

(***************************************************************************)
(* Properties.                                                             *)
(***************************************************************************)

\* The request has just been through _build_call_kwargs: its payload is
\* still in hand and the agent has not been called.
JustMapped == req.pc = "mapped" \/ (req.pc = "done" /\ req.calls = 0)

\* The frames of the chunks the source has yielded, in emission order.
DataFrames == [i \in 1..Len(req.yielded) |-> _serialise_stream_item(req.yielded[i]).frame]

\* C1: with a non-empty parameter mapping and a payload that holds every
\* mapped field, the call arguments are exactly the constants whose name
\* is no mapping target plus every target bound to the payload value of
\* its field (the mapped value wins a collision); nothing else, so no
\* unmapped payload field, is passed.
C1_MappingCompleteness ==
    LET m == Entry.route.parameter_mapping
        constants == Entry.route.constant_parameters
        data == PayloadData(req.payload)
        targets == {m[i][1] : i \in DOMAIN m}
    IN  (JustMapped /\ m # <<>> /\ \A i \in DOMAIN m : m[i][2] \in DOMAIN data)
        => /\ req.pc = "mapped"
           /\ DOMAIN req.kwargs = DOMAIN constants \cup targets
           /\ \A i \in DOMAIN m : req.kwargs[m[i][1]] = data[m[i][2]]
           /\ \A k \in DOMAIN constants \ targets : req.kwargs[k] = constants[k]

\* C1 witness: kwargs were built where a target collides with a constant
\* and the payload holds a field the mapping does not name.
C1_Witness ==
    /\ req.pc = "mapped"
    /\ LET m == Entry.route.parameter_mapping
       IN  /\ m # <<>>
           /\ \E i \in DOMAIN m : m[i][1] \in DOMAIN Entry.route.constant_parameters
           /\ \E f \in DOMAIN req.payload.data : \A i \in DOMAIN m : m[i][2] # f

\* C2: with a non-empty parameter mapping and a payload that lacks mapped
\* fields, the request ends with a 422 whose detail lists every absent
\* mapped field, in mapping order, and the agent method is not called.
C2_MissingFieldRejection ==
    LET m == Entry.route.parameter_mapping
        data == PayloadData(req.payload)
        absent == SelectSeq(m, LAMBDA pair : pair[2] \notin DOMAIN data)
    IN  (JustMapped /\ m # <<>> /\ absent # <<>>)
        => /\ req.pc = "done"
           /\ req.out = HttpError(422, [i \in 1..Len(absent) |-> absent[i][2]])
           /\ req.calls = 0

\* C2 witness: a request was rejected for two different missing fields.
C2_Witness ==
    /\ req.pc = "done"
    /\ req.out.status = 422
    /\ Len(req.out.detail) = 2
    /\ req.out.detail[1] # req.out.detail[2]

\* C3: with an empty parameter mapping the call arguments are the
\* constants plus every payload field under its own name; with no
\* constants they equal the payload, and with no payload the constants.
C3_PassThrough ==
    LET constants == Entry.route.constant_parameters
        data == PayloadData(req.payload)
    IN  (JustMapped /\ Entry.route.parameter_mapping = <<>>)
        => /\ req.pc = "mapped"
           /\ DOMAIN req.kwargs = DOMAIN constants \cup DOMAIN data
           /\ \A f \in DOMAIN data : req.kwargs[f] = data[f]
           /\ \A k \in DOMAIN constants \ DOMAIN data : req.kwargs[k] = constants[k]
           /\ (constants = EmptyDict => req.kwargs = data)
           /\ (req.payload.kind = "none" => req.kwargs = constants)

\* C3 witness: pass-through kwargs built from constants and a payload that
\* has a field of its own and one named like a constant.
C3_Witness ==
    /\ req.pc = "mapped"
    /\ Entry.route.parameter_mapping = <<>>
    /\ DOMAIN req.payload.data \cap DOMAIN Entry.route.constant_parameters # {}
    /\ DOMAIN req.payload.data \ DOMAIN Entry.route.constant_parameters # {}
    /\ DOMAIN Entry.route.constant_parameters \ DOMAIN req.payload.data # {}

\* C4: when a stream is over, the client stayed connected, and its source
\* was a list (which yields its items and finishes) or a generator that
\* ran to exhaustion, the frames
\* emitted are one data frame per chunk of the source, in order, followed
\* by the terminal sentinel as the last frame.
C4_StreamFraming ==
    LET chunks == req.yielded \o req.source.items
    IN  (/\ req.pc = "done"
         /\ req.out.kind = "stream"
         /\ ~req.disconnected
         /\ (req.source.kind = "list" \/ req.src_end = "exhausted"))
        => req.frames =
             [i \in 1..Len(chunks) |-> _serialise_stream_item(chunks[i]).frame]
                \o <<Sentinel>>

C7_FailFast ==
    app.status # "unbuilt"
    => /\ (\E i \in DOMAIN config : getattr(Agent, config[i].agent_method) # "method")
            => app.status = "failed"
       /\ app.status = "serving"
            => \A j \in DOMAIN app.routes :
                 app.routes[j].handler = "agent"
                    => app.routes[j].agent_callable = "method"

\* C8: on a stream route a returned value that is no str/bytes and no
\* iterable ends the request with a 500 and no frame; the route table is
\* untouched and a later request whose source runs to exhaustion gets its
\* data frames and the sentinel.
C8_UnsupportedShape ==
    /\ (/\ req.pc = "done"
        /\ Entry.route.stream
        /\ req.result.kind \notin {"unset", "str", "bytes", "list", "gen", "agen"})
       => (req.out = HttpError(500, <<>>) /\ req.frames = <<>>)
    /\ history.unsupported_shape
       => /\ app = create_app(config, Agent)
          /\ req.src_end = "exhausted" => req.frames = DataFrames \o <<Sentinel>>

\* C8 witness: after a request that ended with the 500, a later request on
\* the route streamed two chunks and the sentinel.
C8_Witness ==
    /\ history.unsupported_shape
    /\ req.pc = "done"
    /\ req.src_end = "exhausted"
    /\ Len(req.frames) = 3

\* C9: what the agent method raises, when called or when awaited, is what
\* leaves the handler: no body, no frame, and the method was called once;
\* every request that passed the mapping called the method exactly once.
C9_AgentErrorPropagates ==
    /\ req.agent_exc # ""
       => /\ req.pc = "done"
          /\ req.out = Raised(req.agent_exc)
          /\ req.frames = <<>>
    /\ req.calls = IF \/ req.pc \in {"idle", "mapped"}
                      \/ (req.out.kind = "http_error" /\ req.out.status # 500)
                   THEN 0 ELSE 1

\* C9 witness: the awaited result of the agent method raised.
C9_Witness ==
    /\ req.agent_exc # ""
    /\ req.awaited
    /\ req.pc = "done"

\* C10: when the source raises after yielding k chunks, the stream ends
\* there: the frames are the k data frames, in order, and no sentinel.
C10_StreamAbort ==
    req.src_end = "raised"
    => /\ req.pc = "done"
       /\ req.frames = DataFrames
       /\ req.out.kind = "stream"
       /\ req.out.exc \in AgentExceptions

\* C10 witness: the source raised after two chunks.
C10_Witness ==
    /\ req.src_end = "raised"
    /\ Len(req.yielded) = 2

\* C11: a stream is produced lazily.  Whenever chunk i+1 has been pulled
\* from the source, the frame of chunk i has been handed to the transport,
\* so at most one pulled chunk is without its frame; the sentinel is among
\* the frames only after the source reported exhaustion; and once the
\* client has disconnected nothing more is pulled from the source and
\* nothing more is emitted.
C11_LazyStream ==
    /\ [](LET data == SelectSeq(req.frames, LAMBDA f : f # Sentinel)
              handed(i) == /\ Len(req.frames) >= i
                           /\ req.frames[i] = _serialise_stream_item(req.yielded[i]).frame
          IN  /\ \A i \in 1..Len(req.yielded) - 1 : handed(i)
              /\ Len(req.yielded) <= Len(data) + 1
              /\ data # req.frames
                   => /\ req.src_end = "exhausted"
                      /\ req.frames = DataFrames \o <<Sentinel>>)
    /\ [][(req.disconnected /\ req'.disconnected)
            => /\ req'.yielded = req.yielded
               /\ req'.source = req.source
               /\ req'.src_end = req.src_end
               /\ req'.frames = req.frames]_vars

\* C11 witness: the client disconnected after the first frame of a list of
\* two chunks; the second chunk is still in the source.
C11_Witness ==
    /\ req.disconnected
    /\ Len(req.yielded) = 1
    /\ Len(req.frames) = 1
    /\ req.source.kind = "list"
    /\ Len(req.source.items) = 1

====
